---- MODULE Spec2Model ----
(***************************************************************************)
(* Model of ddns.py: the DNSPod dynamic-DNS client (class DNSPodDDNS).     *)
(* One process runs the loop of run(); every network request and the write *)
(* of the cache file is an input whose outcome the environment chooses.    *)
(***************************************************************************)
EXTENDS Integers, Sequences, FiniteSets, TLC

\* ------------------------------------------------------------------ bounds
\* number of IP-echo services scanned (the source lists 10)
NumServices == 2
\* longest response body / file content, in characters
MaxBodyLen == 2
\* largest identifier the provider hands out
MaxId == 1
\* longest domain list / record list in a provider response
MaxList == 2
\* longest login_token handed to the constructor, in characters
MaxTokenLen == 3

\* ------------------------------------------------------------- value sets
\* Python's None, for identifiers and for text
None == -1
NoIP == <<"None">>
\* os.path.exists(ip_cache_file) is false
NoFile == <<"NoFile">>

Chars == {" ", "1"}
SeqsUpTo(S, n) == UNION {[1..k -> S] : k \in 0..n}
Bodies == SeqsUpTo(Chars, MaxBodyLen)

\* 'id' of a listed entry: missing (None), or a number; 0 is falsy in Python
IdValues == {None} \cup (0..MaxId)
\* truth value of an identifier in "if self.domain_id:" / "if not domain_id"
TruthyId(x) == x # None /\ x # 0
\* truth value of a string or None in "if not new_ip"
TruthyIp(s) == s # NoIP /\ s # <<>>

RECURSIVE LStrip(_)
LStrip(s) == IF s # <<>> /\ Head(s) = " " THEN LStrip(Tail(s)) ELSE s
RECURSIVE RStrip(_)
RStrip(s) ==
  IF s # <<>> /\ s[Len(s)] = " " THEN RStrip(SubSeq(s, 1, Len(s) - 1)) ELSE s
\* str.strip()
Strip(s) == RStrip(LStrip(s))

\* outcome of requests.get(service, timeout=5): an exception (a timeout
\* included) or a response with a status code and a body
EchoOutcome ==
  {[kind |-> "exc", status |-> 0, text |-> <<>>]}
  \cup {[kind |-> "resp", status |-> 200, text |-> t] : t \in Bodies}
  \cup {[kind |-> "resp", status |-> 500, text |-> <<"1">>]}

\* the configured domain and sub_domain ("other" is a name that is neither)
domain == "mine"
sub_domain == "mine"

\* a login_token is text; "," separates the ID from the Token
TokenChars == {",", "a"}
Tokens == SeqsUpTo(TokenChars, MaxTokenLen)
\* CONFIG['login_token'] of the script: an ID, the separator, a Token
ConfigToken == <<"a", ",", "a">>
\* the domain argument of the constructor: empty, or a name
RootDomains == {"", domain}
\* an entry of 'domains' in a Domain.List response: the configured domain
\* with any id, or another domain (nothing reads the id of that one)
DomainEntry ==
  {[name |-> domain, id |-> i] : i \in IdValues}
  \cup {[name |-> "other", id |-> MaxId]}
\* an entry of 'records' in a Record.List response: the A record of
\* sub_domain with any id, or a record of another type or another name
RecordEntry ==
  {[name |-> sub_domain, type |-> "A", id |-> i] : i \in IdValues}
  \cup {[name |-> sub_domain, type |-> "CNAME", id |-> MaxId],
        [name |-> "other", type |-> "A", id |-> MaxId]}
\* status.code of a provider response: '1' is success
Codes == {"1", "-1"}

\* ------------------------------------------------------------------ state
VARIABLES
  pc,          \* position of the process in run() and the calls below it
  current_ip,  \* self.current_ip
  file,        \* content of current_ip.txt, or NoFile
  domain_id,   \* self.domain_id
  record_id,   \* self.record_id
  echo,        \* outcomes of the IP-echo services requested this cycle, in order
  all_failed,  \* whether every one of this cycle's services failed
  queried,     \* how many services get_public_ip() requested this cycle
  new_ip,      \* run(): new_ip
  upd_ip,      \* update_record(): ip
  loc_did,     \* update_record(): domain_id
  loc_rid,     \* update_record(): record_id
  rec_did,     \* get_record_id(): domain_id
  upd_result,  \* what update_record() returned this cycle, "none" if not called
  save,        \* outcome of this cycle's write of the cache file
  calls,       \* provider API requests issued this cycle, with their outcome
  ip0, file0, did0, rid0,  \* current_ip, file, domain_id, record_id at cycle start
  dom_ok,      \* the id get_domain_id() last returned, None if it never did
  rec_ok,      \* the id get_record_id() last returned, None if it never did
  last_failed, \* ip of the previous cycle's failed update_record(), or NoIP
  committed,   \* ip of this process's last successful update_record(), NoIP
               \* if it had none; Untracked where no history is kept
  inherited,   \* after a restart: committed of the process before, until an
               \* update succeeds
  login_token, \* self.login_token
  root_domain, \* self.domain as handed to the constructor
  stable       \* NoIP while the services and the provider answer as they
               \* like; x once every resolution yields x and every provider
               \* request succeeds

vars == <<pc, current_ip, file, domain_id, record_id, echo, all_failed,
          queried, new_ip,
          upd_ip, loc_did, loc_rid, rec_did, upd_result, save, calls,
          ip0, file0, did0, rid0, dom_ok, rec_ok, last_failed,
          committed, inherited, login_token, root_domain, stable>>

cfgVars == <<login_token, root_domain>>
histVars == <<committed, inherited>>
envVars == <<stable>>

\* the history of successful updates is kept only in behaviours that start
\* with committed # Untracked
Untracked == <<"untracked">>
Track(c, v) == IF c = Untracked THEN Untracked ELSE v
startVars == <<ip0, file0, did0, rid0, last_failed>>

\* the addresses a resolution can yield
StableIps == {Strip(b) : b \in Bodies} \ {<<>>}

\* no service requested yet, and the responses forgotten after the comparison
NoEcho == <<>>

\* a provider request (did, rid, value: the domain_id, record_id and value
\* sent) and what came of it (kind, and status.code of a response)
Call(api, did, rid, value, kind, code) ==
  [api |-> api, did |-> did, rid |-> rid, value |-> value,
   kind |-> kind, code |-> code]

\* ---------------------------------------------------------------- __init__
\* current_ip as the constructor seeds it from the cache file
SeedIp(f) == IF f = NoFile THEN NoIP ELSE Strip(f)

Construct(f) ==
  /\ pc = "resolving"
  /\ file = f
  /\ current_ip = SeedIp(f)
  /\ domain_id = None
  /\ record_id = None
  /\ echo = NoEcho
  /\ all_failed = FALSE
  /\ queried = 0
  /\ new_ip = NoIP
  /\ upd_ip = NoIP
  /\ loc_did = None
  /\ loc_rid = None
  /\ rec_did = None
  /\ upd_result = "none"
  /\ save = "none"
  /\ calls = <<>>
  /\ ip0 = SeedIp(f)
  /\ file0 = f
  /\ did0 = None
  /\ rid0 = None
  /\ dom_ok = None
  /\ rec_ok = None
  /\ last_failed = NoIP
  /\ inherited = NoIP
  /\ login_token = ConfigToken
  /\ root_domain = domain
  /\ stable = NoIP

\* the cache file the first start may find: none, one holding an address,
\* one holding an address and a trailing blank
InitFiles == {NoFile, <<"1">>, <<"1", " ">>}

Init == \E f \in InitFiles : Construct(f) /\ committed = Untracked

\* the same start, with the history of successful updates kept
InitTracked == \E f \in InitFiles : Construct(f) /\ committed = NoIP

\* ----------------------------------------------------------- get_public_ip
\* a service fails: its request raises (a timeout included) or its status
\* is not 200
ServiceFails(o) == o.kind = "exc" \/ o.status # 200

\* every service of the list was requested and failed
AllFail(e) ==
  Len(e) = NumServices /\ \A i \in 1..Len(e) : ServiceFails(e[i])

\* variant: the status code of a response is not looked at
ServiceAnswers_AnyStatus(o) == o.kind = "resp"

\* "if response.status_code == 200" on a request that did not raise
ServiceAnswers(o) == o.kind = "resp" /\ o.status = 200

\* the outcomes the services may produce: any while nothing is settled; once
\* resolution is settled on stable, a service either answers with a body that
\* strips to stable or, unless it is the last one, fails
EchoMay(o) ==
  \/ stable = NoIP
  \/ IF ServiceAnswers(o) THEN Strip(o.text) = stable
     ELSE queried + 1 < NumServices

\* one turn of "for service in services": the next service is requested;
\* a 200 response returns its stripped text, anything else goes on to the
\* next service, and after the last one get_public_ip() returns None
QueryService ==
  /\ pc = "resolving"
  /\ queried < NumServices
  /\ \E o \in EchoOutcome :
       /\ EchoMay(o)
       /\ echo' = Append(echo, o)
       /\ queried' = queried + 1
       /\ IF ServiceAnswers(o)
          THEN /\ new_ip' = Strip(o.text)
               /\ all_failed' = AllFail(Append(echo, o))
               /\ pc' = "run_compare"
          ELSE IF queried + 1 = NumServices
          THEN /\ new_ip' = NoIP
               /\ all_failed' = AllFail(Append(echo, o))
               /\ pc' = "run_compare"
          ELSE /\ new_ip' = new_ip
               /\ all_failed' = FALSE
               /\ pc' = "resolving"
  /\ UNCHANGED <<current_ip, file, domain_id, record_id, upd_ip, loc_did,
                 loc_rid, rec_did, upd_result, save, calls, dom_ok, rec_ok>>
  /\ UNCHANGED startVars
  /\ UNCHANGED cfgVars
  /\ UNCHANGED envVars
  /\ UNCHANGED histVars

\* ------------------------------------------------------ run: the comparison
\* variant: the comparison with current_ip is left out
NeedsUpdate_Always(ip, known) == TruthyIp(ip)

\* variant: the test "if not new_ip" is left out
NeedsUpdate_NoEmptyTest(ip, known) == ip # known

\* whether run() calls update_record(new_ip)
NeedsUpdate(ip, known) == TruthyIp(ip) /\ ip # known

Compare ==
  /\ pc = "run_compare"
  /\ IF NeedsUpdate(new_ip, current_ip)
     THEN /\ upd_ip' = new_ip
          /\ pc' = "upd_get_domain"
     ELSE /\ upd_ip' = upd_ip
          /\ pc' = "sleep"
  /\ echo' = NoEcho
  /\ UNCHANGED <<current_ip, file, domain_id, record_id, all_failed, queried,
                 new_ip,
                 loc_did, loc_rid, rec_did, upd_result, save, calls,
                 dom_ok, rec_ok>>
  /\ UNCHANGED startVars
  /\ UNCHANGED cfgVars
  /\ UNCHANGED envVars
  /\ UNCHANGED histVars

\* ------------------------------------------------------- the provider's side
\* a provider request may raise or hang only while nothing is settled
ProviderMayFail == stable = NoIP

\* a provider response: any while nothing is settled; afterwards status.code
\* is '1' and the entry looked for is listed
ProviderMay(code, found) == stable = NoIP \/ (code = "1" /\ found)

\* ------------------------------------------------------------ get_domain_id
\* index of the first listed domain whose name is the configured one, or 0
RECURSIVE FirstDomain(_, _)
FirstDomain(list, i) ==
  IF i > Len(list) THEN 0
  ELSE IF list[i].name = domain THEN i ELSE FirstDomain(list, i + 1)

\* the fast path of get_domain_id(): the cached id is truthy
DomainCached(did) == TruthyId(did)

\* what a Domain.List response makes get_domain_id() return: the id of the
\* first match when status.code is '1', else None
DomainFromResponse(code, list) ==
  IF code = "1" /\ FirstDomain(list, 1) # 0
  THEN list[FirstDomain(list, 1)].id
  ELSE None

\* whether the response makes get_domain_id() assign self.domain_id
DomainAssigned(code, list) == code = "1" /\ FirstDomain(list, 1) # 0

\* get_domain_id() returns r to its caller: update_record() (site
\* "upd_get_domain") or get_record_id() (site "rec_get_domain")
ReturnDomainId(site, r) ==
  /\ IF site = "upd_get_domain"
     THEN /\ loc_did' = r
          /\ rec_did' = rec_did
          /\ pc' = "upd_get_record"
     ELSE /\ rec_did' = r
          /\ loc_did' = loc_did
          /\ pc' = "rec_check"
  /\ dom_ok' = IF r # None THEN r ELSE dom_ok

GetDomainId(site) ==
  /\ pc = site
  /\ \/ /\ DomainCached(domain_id)
        /\ ReturnDomainId(site, domain_id)
        /\ UNCHANGED <<domain_id, calls>>
     \/ /\ ~DomainCached(domain_id)
        /\ \/ \* requests.post or response.json() raises: caught, None
              /\ ProviderMayFail
              /\ calls' = Append(calls,
                   Call("Domain.List", None, None, NoIP, "exc", "-1"))
              /\ ReturnDomainId(site, None)
              /\ UNCHANGED domain_id
           \/ \* the provider never answers
              /\ ProviderMayFail
              /\ calls' = Append(calls,
                   Call("Domain.List", None, None, NoIP, "hang", "-1"))
              /\ pc' = "blocked"
              /\ UNCHANGED <<domain_id, loc_did, rec_did, dom_ok>>
           \/ \E code \in Codes, list \in SeqsUpTo(DomainEntry, MaxList) :
                /\ ProviderMay(code, FirstDomain(list, 1) # 0)
                /\ calls' = Append(calls,
                     Call("Domain.List", None, None, NoIP, "resp", code))
                /\ domain_id' = IF DomainAssigned(code, list)
                                THEN DomainFromResponse(code, list)
                                ELSE domain_id
                /\ ReturnDomainId(site, DomainFromResponse(code, list))
  /\ UNCHANGED <<current_ip, file, record_id, echo, all_failed, queried,
                 new_ip, upd_ip,
                 loc_rid, upd_result, save, rec_ok>>
  /\ UNCHANGED startVars
  /\ UNCHANGED cfgVars
  /\ UNCHANGED envVars
  /\ UNCHANGED histVars

\* ------------------------------------------------------------ get_record_id
\* the fast path of get_record_id(): the cached id is truthy
RecordCached(rid) == TruthyId(rid)

GetRecordIdEnter ==
  /\ pc = "upd_get_record"
  /\ IF RecordCached(record_id)
     THEN /\ loc_rid' = record_id
          /\ rec_ok' = record_id
          /\ pc' = "upd_check"
     ELSE /\ loc_rid' = loc_rid
          /\ rec_ok' = rec_ok
          /\ pc' = "rec_get_domain"
  /\ UNCHANGED <<current_ip, file, domain_id, record_id, echo, all_failed, queried,
                 new_ip,
                 upd_ip, loc_did, rec_did, upd_result, save, calls, dom_ok>>
  /\ UNCHANGED startVars
  /\ UNCHANGED cfgVars
  /\ UNCHANGED envVars
  /\ UNCHANGED histVars

\* variant: the test of the looked-up domain id is left out
DomainMissing_Never(did) == FALSE

\* "if not domain_id: return None" of get_record_id()
DomainMissing(did) == ~TruthyId(did)

RecCheck ==
  /\ pc = "rec_check"
  /\ IF DomainMissing(rec_did)
     THEN /\ loc_rid' = None
          /\ pc' = "upd_check"
     ELSE /\ loc_rid' = loc_rid
          /\ pc' = "rec_list"
  /\ UNCHANGED <<current_ip, file, domain_id, record_id, echo, all_failed, queried,
                 new_ip,
                 upd_ip, loc_did, rec_did, upd_result, save, calls,
                 dom_ok, rec_ok>>
  /\ UNCHANGED startVars
  /\ UNCHANGED cfgVars
  /\ UNCHANGED envVars
  /\ UNCHANGED histVars

\* index of the first listed record named sub_domain of type A, or 0
RECURSIVE FirstRecord(_, _)
FirstRecord(list, i) ==
  IF i > Len(list) THEN 0
  ELSE IF list[i].name = sub_domain /\ list[i].type = "A" THEN i
       ELSE FirstRecord(list, i + 1)

RecordFromResponse(code, list) ==
  IF code = "1" /\ FirstRecord(list, 1) # 0
  THEN list[FirstRecord(list, 1)].id
  ELSE None

RecordAssigned(code, list) == code = "1" /\ FirstRecord(list, 1) # 0

ReturnRecordId(r) ==
  /\ loc_rid' = r
  /\ rec_ok' = IF r # None THEN r ELSE rec_ok
  /\ pc' = "upd_check"

RecordList ==
  /\ pc = "rec_list"
  /\ \/ /\ ProviderMayFail
        /\ calls' = Append(calls,
             Call("Record.List", rec_did, None, NoIP, "exc", "-1"))
        /\ ReturnRecordId(None)
        /\ UNCHANGED record_id
     \/ /\ ProviderMayFail
        /\ calls' = Append(calls,
             Call("Record.List", rec_did, None, NoIP, "hang", "-1"))
        /\ pc' = "blocked"
        /\ UNCHANGED <<record_id, loc_rid, rec_ok>>
     \/ \E code \in Codes, list \in SeqsUpTo(RecordEntry, MaxList) :
          /\ ProviderMay(code, FirstRecord(list, 1) # 0)
          /\ calls' = Append(calls,
               Call("Record.List", rec_did, None, NoIP, "resp", code))
          /\ record_id' = IF RecordAssigned(code, list)
                          THEN RecordFromResponse(code, list)
                          ELSE record_id
          /\ ReturnRecordId(RecordFromResponse(code, list))
  /\ UNCHANGED <<current_ip, file, domain_id, echo, all_failed, queried,
                 new_ip, upd_ip,
                 loc_did, rec_did, upd_result, save, dom_ok>>
  /\ UNCHANGED startVars
  /\ UNCHANGED cfgVars
  /\ UNCHANGED envVars
  /\ UNCHANGED histVars

\* ------------------------------------------------------------ update_record
\* variant: "and" in place of "or"
IdsMissing_Both(did, rid) == ~TruthyId(did) /\ ~TruthyId(rid)

\* "if not domain_id or not record_id: return False"
IdsMissing(did, rid) == ~TruthyId(did) \/ ~TruthyId(rid)

UpdCheck ==
  /\ pc = "upd_check"
  /\ IF IdsMissing(loc_did, loc_rid)
     THEN /\ upd_result' = "failure"
          /\ pc' = "sleep"
     ELSE /\ upd_result' = upd_result
          /\ pc' = "upd_modify"
  /\ UNCHANGED <<current_ip, file, domain_id, record_id, echo, all_failed, queried,
                 new_ip,
                 upd_ip, loc_did, loc_rid, rec_did, save, calls,
                 dom_ok, rec_ok>>
  /\ UNCHANGED startVars
  /\ UNCHANGED cfgVars
  /\ UNCHANGED envVars
  /\ UNCHANGED histVars

\* outcomes of _save_current_ip(): written; open() raises; open() truncates
\* the file and the write raises.  Either exception is caught and logged.
SaveOutcomes == {"ok", "open_fail", "write_fail"}

\* the cache file after _save_current_ip(ip) with outcome w
SaveCurrentIp(f, ip, w) ==
  IF w = "ok" THEN ip
  ELSE IF w = "open_fail" THEN f
  ELSE <<>>

\* variant: any response that arrives counts as success
ModifySucceeded_Transport(code) == TRUE

\* whether update_record() takes a Record.Modify response as success
ModifySucceeded(code) == code = "1"

\* variant: current_ip is assigned before the status code is looked at
IpAfterModify_Eager(known, ip, code) == ip

\* self.current_ip after the response: assigned only under the success code
IpAfterModify(known, ip, code) == IF ModifySucceeded(code) THEN ip ELSE known

Modify ==
  /\ pc = "upd_modify"
  /\ \/ /\ ProviderMayFail
        /\ calls' = Append(calls,
             Call("Record.Modify", loc_did, loc_rid, upd_ip, "exc", "-1"))
        /\ upd_result' = "failure"
        /\ pc' = "sleep"
        /\ UNCHANGED <<current_ip, file, save, committed, inherited>>
     \/ /\ ProviderMayFail
        /\ calls' = Append(calls,
             Call("Record.Modify", loc_did, loc_rid, upd_ip, "hang", "-1"))
        /\ pc' = "blocked"
        /\ UNCHANGED <<current_ip, file, save, upd_result, committed,
                       inherited>>
     \/ \E code \in Codes :
          /\ ProviderMay(code, TRUE)
          /\ calls' = Append(calls,
               Call("Record.Modify", loc_did, loc_rid, upd_ip, "resp", code))
          /\ current_ip' = IpAfterModify(current_ip, upd_ip, code)
          /\ IF ModifySucceeded(code)
             THEN \E w \in SaveOutcomes :
                    /\ file' = SaveCurrentIp(file, upd_ip, w)
                    /\ save' = w
                    /\ upd_result' = "success"
                    /\ committed' = Track(committed, upd_ip)
                    /\ inherited' = NoIP
             ELSE /\ upd_result' = "failure"
                  /\ UNCHANGED <<file, save, committed, inherited>>
          /\ pc' = "sleep"
  /\ UNCHANGED <<domain_id, record_id, echo, all_failed, queried,
                 new_ip, upd_ip,
                 loc_did, loc_rid, rec_did, dom_ok, rec_ok>>
  /\ UNCHANGED startVars
  /\ UNCHANGED cfgVars
  /\ UNCHANGED envVars

\* ------------------------------------------------------------- run: the loop
\* time.sleep(check_interval), then the next iteration of "while True"
Sleep ==
  /\ pc = "sleep"
  /\ pc' = "resolving"
  /\ echo' = NoEcho
  /\ all_failed' = FALSE
  /\ queried' = 0
  /\ new_ip' = NoIP
  /\ upd_ip' = NoIP
  /\ loc_did' = None
  /\ loc_rid' = None
  /\ rec_did' = None
  /\ upd_result' = "none"
  /\ save' = "none"
  /\ calls' = <<>>
  /\ ip0' = current_ip
  /\ file0' = file
  /\ did0' = domain_id
  /\ rid0' = record_id
  /\ last_failed' = IF upd_result = "failure" THEN upd_ip ELSE NoIP
  /\ UNCHANGED <<current_ip, file, domain_id, record_id, dom_ok, rec_ok>>
  /\ UNCHANGED cfgVars
  /\ UNCHANGED envVars
  /\ UNCHANGED histVars

\* the process state a constructor call leaves, over the cache file f
Constructed(f) ==
  /\ pc' = "resolving"
  /\ current_ip' = SeedIp(f)
  /\ domain_id' = None
  /\ record_id' = None
  /\ echo' = NoEcho
  /\ all_failed' = FALSE
  /\ queried' = 0
  /\ new_ip' = NoIP
  /\ upd_ip' = NoIP
  /\ loc_did' = None
  /\ loc_rid' = None
  /\ rec_did' = None
  /\ upd_result' = "none"
  /\ save' = "none"
  /\ calls' = <<>>
  /\ ip0' = SeedIp(f)
  /\ file0' = f
  /\ did0' = None
  /\ rid0' = None
  /\ dom_ok' = None
  /\ rec_ok' = None
  /\ last_failed' = NoIP

\* KeyboardInterrupt leaves run(); the process ends and only the file remains
Interrupt ==
  /\ pc # "stopped"
  /\ pc' = "stopped"
  /\ current_ip' = NoIP
  /\ domain_id' = None
  /\ record_id' = None
  /\ echo' = NoEcho
  /\ all_failed' = FALSE
  /\ queried' = 0
  /\ new_ip' = NoIP
  /\ upd_ip' = NoIP
  /\ loc_did' = None
  /\ loc_rid' = None
  /\ rec_did' = None
  /\ upd_result' = "none"
  /\ save' = "none"
  /\ calls' = <<>>
  /\ ip0' = NoIP
  /\ file0' = file
  /\ did0' = None
  /\ rid0' = None
  /\ dom_ok' = None
  /\ rec_ok' = None
  /\ last_failed' = NoIP
  /\ committed' = Track(committed,
                        IF committed # NoIP THEN committed ELSE inherited)
  /\ inherited' = NoIP
  /\ UNCHANGED file
  /\ UNCHANGED cfgVars
  /\ UNCHANGED envVars

\* the program is started again
Restart ==
  /\ pc = "stopped"
  /\ Constructed(file)
  /\ committed' = Track(committed, NoIP)
  /\ inherited' = IF committed = Untracked THEN NoIP ELSE committed
  /\ UNCHANGED file
  /\ UNCHANGED cfgVars
  /\ UNCHANGED envVars

\* the steps of the program itself
Step ==
  \/ QueryService
  \/ Compare
  \/ GetDomainId("upd_get_domain")
  \/ GetDomainId("rec_get_domain")
  \/ GetRecordIdEnter
  \/ RecCheck
  \/ RecordList
  \/ UpdCheck
  \/ Modify
  \/ Sleep

Next == Step \/ Interrupt \/ Restart

Spec == Init /\ [][Next]_vars

\* the program with the history of successful updates kept across restarts
RestartSpec == InitTracked /\ [][Next]_vars

\* the interpreter keeps running the program; interrupts and restarts are
\* the operator's and are not guaranteed
FairSpec == Init /\ [][Next]_vars /\ WF_vars(Step)

\* ------------------------------------------------------------------ startup
\* variant: the test for the separator is left out
ValidToken_NonEmpty(t) == t # <<>>

\* the negation of "not self.login_token or ',' not in self.login_token"
ValidToken(t) == t # <<>> /\ \E i \in 1..Len(t) : t[i] = ","

\* the negation of "not self.domain"
ValidDomain(d) == d # ""

\* what the startup steps leave alone
memVars == <<file, domain_id, record_id, echo, all_failed, queried, new_ip,
             upd_ip, loc_did, loc_rid, rec_did, upd_result, save, calls,
             file0, did0, rid0, dom_ok, rec_ok, last_failed,
             committed, inherited>>

\* a start with any token, domain and cache file: of the script (pc "main",
\* which tests the token itself first) or of the class alone (pc "construct")
InitConfig ==
  /\ pc \in {"main", "construct"}
  /\ login_token \in Tokens
  /\ root_domain \in RootDomains
  /\ file \in InitFiles
  /\ current_ip = NoIP
  /\ domain_id = None
  /\ record_id = None
  /\ echo = NoEcho
  /\ all_failed = FALSE
  /\ queried = 0
  /\ new_ip = NoIP
  /\ upd_ip = NoIP
  /\ loc_did = None
  /\ loc_rid = None
  /\ rec_did = None
  /\ upd_result = "none"
  /\ save = "none"
  /\ calls = <<>>
  /\ ip0 = NoIP
  /\ file0 = file
  /\ did0 = None
  /\ rid0 = None
  /\ dom_ok = None
  /\ rec_ok = None
  /\ last_failed = NoIP
  /\ committed = Untracked
  /\ stable = NoIP
  /\ inherited = NoIP

\* the script's own test of CONFIG['login_token']: exit(1) on a bad format
MainCheck ==
  /\ pc = "main"
  /\ pc' = IF ValidToken(login_token) THEN "construct" ELSE "exit1"
  /\ UNCHANGED <<current_ip, ip0>>
  /\ UNCHANGED memVars
  /\ UNCHANGED cfgVars
  /\ UNCHANGED envVars

\* __init__ up to the read of the cache file
ConstructRead ==
  /\ pc = "construct"
  /\ current_ip' = SeedIp(file)
  /\ ip0' = SeedIp(file)
  /\ pc' = "validate"
  /\ UNCHANGED memVars
  /\ UNCHANGED cfgVars
  /\ UNCHANGED envVars

\* _validate_config(): ValueError, which the script reports as a
\* configuration error, or run() is entered
ValidateConfig ==
  /\ pc = "validate"
  /\ pc' = IF ValidToken(login_token) /\ ValidDomain(root_domain)
           THEN "resolving"
           ELSE "config_error"
  /\ UNCHANGED <<current_ip, ip0>>
  /\ UNCHANGED memVars
  /\ UNCHANGED cfgVars
  /\ UNCHANGED envVars

NextConfig == MainCheck \/ ConstructRead \/ ValidateConfig

ConfigSpec == InitConfig /\ [][NextConfig]_vars

TypeOK ==
  /\ pc \in {"main", "construct", "validate", "exit1", "config_error"} \cup
           {"resolving", "run_compare", "upd_get_domain", "upd_get_record",
             "rec_get_domain", "rec_check", "rec_list", "upd_check",
             "upd_modify", "sleep", "blocked", "stopped"}
  /\ domain_id \in IdValues
  /\ record_id \in IdValues
  /\ upd_result \in {"none", "success", "failure"}
  /\ save \in {"none"} \cup SaveOutcomes
  /\ queried \in 0..NumServices
  /\ Len(echo) \in {0, queried}
  /\ Len(calls) <= 4
  /\ login_token \in Tokens
  /\ root_domain \in RootDomains
  /\ stable \in {NoIP} \cup StableIps

\* ----------------------------------------------------- a settled environment
\* at the start of a cycle the environment settles: from here on every
\* resolution yields x and every provider request succeeds
Stabilise ==
  /\ stable = NoIP
  /\ pc = "resolving"
  /\ queried = 0
  /\ \E x \in StableIps : stable' = x
  /\ UNCHANGED <<pc, current_ip, ip0>>
  /\ UNCHANGED memVars
  /\ UNCHANGED cfgVars

\* the operator leaves a settled process running
NextConv == Step \/ Stabilise \/ (stable = NoIP /\ (Interrupt \/ Restart))

\* the loop against an environment that may settle, cycles scheduled fairly
ConvSpec == Init /\ [][NextConv]_vars /\ WF_vars(Step)

\* ------------------------------------------------------------------ claims
\* the response o is successful (200) and its body is not empty
Usable(o) == o.kind = "resp" /\ o.status = 200 /\ o.text # <<>>

\* C1: get_public_ip() returns the trimmed body of the first service, in list
\* order, that answered 200 with a non-empty body, and queries no service
\* after that one: when it returns, either the last service requested is the
\* only usable one among those requested and its trimmed body is the result,
\* or every service was requested, none was usable and the result is None.
C1_FirstUsableWins ==
  pc = "run_compare" =>
     \/ /\ Usable(echo[queried])
        /\ \A i \in 1..(queried - 1) : ~Usable(echo[i])
        /\ new_ip = Strip(echo[queried].text)
     \/ /\ queried = NumServices
        /\ \A i \in 1..queried : ~Usable(echo[i])
        /\ new_ip = NoIP

\* C2: when the known IP differs from the resolved one and Record.Modify
\* reports success, at the end of the cycle current_ip and the cache file
\* both hold the new IP, whatever happens to the write of the file.
C2_SuccessCommitsBoth ==
  (pc = "sleep" /\ upd_result = "success" /\ TruthyIp(ip0) /\ ip0 # upd_ip) =>
     (current_ip = upd_ip /\ file = upd_ip)

\* C3: when update_record(b) returns Failure, current_ip and the cache file
\* are what they were at the start of the cycle (and differ from b); and when
\* the resolver returns b again in the next cycle, update_record(b) is called
\* again in that cycle.
C3_FailureKeepsAndRetries ==
  /\ (pc = "sleep" /\ upd_result = "failure") =>
        (current_ip = ip0 /\ file = file0 /\ ip0 # upd_ip)
  /\ (pc \in {"sleep", "blocked"} /\ last_failed # NoIP /\ new_ip = last_failed)
        => upd_ip = last_failed

\* C3 witness: the same IP failed in the previous cycle and again in this one
C3_Witness ==
  /\ pc = "sleep"
  /\ upd_result = "failure"
  /\ last_failed # NoIP
  /\ new_ip = last_failed
  /\ upd_ip = last_failed
  /\ \E i \in 1..Len(calls) : calls[i].api = "Record.Modify"

\* C4: in a cycle whose resolved IP equals current_ip, update_record() is not
\* called, no provider request is issued, and current_ip and the cache file
\* stay as they were.
C4_NoDriftNoUpdate ==
  (pc \notin {"resolving", "stopped"} /\ new_ip = ip0) =>
     /\ calls = <<>>
     /\ upd_ip = NoIP
     /\ upd_result = "none"
     /\ current_ip = ip0
     /\ file = file0
     /\ pc \in {"run_compare", "sleep"}

\* C4 witness: a cycle that resolved the known IP has reached its sleep
C4_Witness ==
  pc = "sleep" /\ queried > 0 /\ TruthyIp(new_ip) /\ new_ip = ip0

\* C5: an update_record() invocation in which the domain id or the record id
\* is not resolved issues no Record.Modify and returns Failure.
C5_NoModifyWithoutIds ==
  (upd_ip # NoIP /\ pc \in {"upd_modify", "sleep", "blocked"}
     /\ (pc = "blocked" => calls[Len(calls)].api = "Record.Modify")
     /\ (~TruthyId(loc_did) \/ ~TruthyId(loc_rid)))
  => /\ pc = "sleep"
     /\ upd_result = "failure"
     /\ \A i \in 1..Len(calls) : calls[i].api # "Record.Modify"

\* C5 witness: update_record() returned with the domain resolved and the
\* record not
C5_Witness ==
  /\ pc = "sleep"
  /\ upd_ip # NoIP
  /\ TruthyId(loc_did)
  /\ ~TruthyId(loc_rid)
  /\ upd_result = "failure"

\* C6: once get_domain_id() has returned an id, every later call returns that
\* id and issues no Domain.List; once get_record_id() has returned an id,
\* every later call returns that id and issues no request.
C6_Memoized ==
  [][ /\ (pc = "upd_get_domain" /\ dom_ok # None /\ pc' # "stopped")
           => (pc' = "upd_get_record" /\ loc_did' = dom_ok /\ calls' = calls)
      /\ (pc = "rec_get_domain" /\ dom_ok # None /\ pc' # "stopped")
           => (pc' = "rec_check" /\ rec_did' = dom_ok /\ calls' = calls)
      /\ (pc = "upd_get_record" /\ rec_ok # None /\ pc' # "stopped")
           => (pc' = "upd_check" /\ loc_rid' = rec_ok /\ calls' = calls)
    ]_vars

\* C7: every network call is bounded by a timeout, so under fairness a cycle
\* that has started reaches its sleep (unless the process is interrupted).
C7_CycleReachesSleep ==
  (pc = "resolving") ~> (pc = "sleep" \/ pc = "stopped")

\* an exception was raised, and caught, in this cycle's identity lookups,
\* update call or state write
RaisedThisCycle ==
  \/ \E i \in 1..Len(calls) : calls[i].kind = "exc"
  \/ save \in {"open_fail", "write_fail"}

\* C8: a cycle in which a lookup, the update call or the state write raised
\* reaches its sleep with current_ip and the cache file unchanged.
C8_ErrorCycleChangesNothing ==
  (pc = "sleep" /\ RaisedThisCycle) => (current_ip = ip0 /\ file = file0)

\* C9: when every IP-echo service fails, get_public_ip() returns None after
\* trying them all, and the cycle goes to its sleep with no provider request
\* and with current_ip, the cache file and the cached ids unchanged.
C9_AllFailSkipsCycle ==
  all_failed =>
     /\ new_ip = NoIP
     /\ queried = NumServices
     /\ pc \in {"run_compare", "sleep"}
     /\ calls = <<>>
     /\ upd_ip = NoIP
     /\ current_ip = ip0
     /\ file = file0
     /\ domain_id = did0
     /\ record_id = rid0

\* C9 witness: a cycle in which a service answered with a non-200 status and
\* none succeeded is at its sleep
C9_Witness ==
  /\ pc = "sleep"
  /\ all_failed
  /\ queried = NumServices

\* C10: a provider response with a status.code other than '1' makes
\* update_record() return Failure, get_domain_id() and get_record_id() return
\* None, and changes none of current_ip, the cache file and the cached ids.
C10_EmbeddedFailure ==
  [][ (/\ Len(calls') = Len(calls) + 1
       /\ calls'[Len(calls')].kind = "resp"
       /\ calls'[Len(calls')].code # "1")
      => /\ current_ip' = current_ip
         /\ file' = file
         /\ domain_id' = domain_id
         /\ record_id' = record_id
         /\ (pc = "upd_modify" => (pc' = "sleep" /\ upd_result' = "failure"))
         /\ (pc = "upd_get_domain" => loc_did' = None)
         /\ (pc = "rec_get_domain" => rec_did' = None)
         /\ (pc = "rec_list" => loc_rid' = None)
    ]_vars

\* C10 witness: Record.Modify was answered with a failure code
C10_Witness ==
  /\ pc = "sleep"
  /\ upd_result = "failure"
  /\ \E i \in 1..Len(calls) :
       /\ calls[i].api = "Record.Modify"
       /\ calls[i].kind = "resp"
       /\ calls[i].code # "1"

\* the token t has no separator (the empty token included)
NoSeparator(t) == \A i \in 1..Len(t) : t[i] # ","

\* the positions of the process inside run()
LoopPcs == {"resolving", "run_compare", "upd_get_domain", "upd_get_record",
            "rec_get_domain", "rec_check", "rec_list", "upd_check",
            "upd_modify", "sleep", "blocked"}

\* C11: with a login_token that has no separator (or is empty) the start ends
\* in a configuration error: run() is never entered and no IP-echo service
\* and no provider API has been requested.
C11_BadTokenFailsFirst ==
  NoSeparator(login_token) =>
     /\ pc \notin LoopPcs
     /\ queried = 0
     /\ echo = <<>>
     /\ calls = <<>>

\* C11 witness: the constructor raised on a token that is not empty and has
\* no separator
C11_Witness ==
  /\ pc = "config_error"
  /\ login_token # <<>>
  /\ NoSeparator(login_token)
  /\ calls = <<>>

\* the token t has a non-empty part before its first separator and a
\* non-empty part after it
HasBothParts(t) ==
  \E i \in 1..Len(t) :
     /\ t[i] = ","
     /\ \A j \in 1..(i - 1) : t[j] # ","
     /\ i > 1
     /\ i < Len(t)

\* C12: while the loop runs the credential has an identifier part and a
\* secret part, both non-empty, and the root domain is not empty.
C12_ConfigInvariant ==
  pc \in LoopPcs => (HasBothParts(login_token) /\ root_domain # "")

\* the step appends a Record.Modify request that was answered with the
\* success code
ModifyAnsweredOk ==
  /\ Len(calls') = Len(calls) + 1
  /\ calls'[Len(calls')].api = "Record.Modify"
  /\ calls'[Len(calls')].kind = "resp"
  /\ calls'[Len(calls')].code = "1"

\* C13: a step of the running process that changes current_ip or the cache
\* file is the handling of a Record.Modify response with the success code,
\* and what it writes to either is the value sent in that request.
C13_OnlySuccessWrites ==
  [][ (pc # "stopped" /\ pc' # "stopped"
         /\ (current_ip' # current_ip \/ file' # file))
      => /\ pc = "upd_modify"
         /\ ModifyAnsweredOk
         /\ (current_ip' # current_ip
               => current_ip' = calls'[Len(calls')].value)
         /\ (file' # file => file' = calls'[Len(calls')].value)
    ]_vars

\* C14: every Record.List request carries the id that get_domain_id() has
\* just returned to get_record_id(), never a missing one; when that lookup
\* returned nothing, get_record_id() returns None and no Record.List is sent.
C14_RecordListNeedsDomain ==
  /\ \A i \in 1..Len(calls) :
        calls[i].api = "Record.List" =>
           (calls[i].did # None /\ calls[i].did = rec_did)
  /\ pc = "rec_list" => rec_did # None
  /\ (pc \in {"upd_check", "upd_modify", "sleep"} /\ upd_ip # NoIP
        /\ rec_did = None /\ ~RecordCached(record_id))
     => loc_rid = None

\* C14 witness: a Record.List request went out with a resolved domain id
C14_Witness ==
  /\ pc = "upd_check"
  /\ \E i \in 1..Len(calls) :
       /\ calls[i].api = "Record.List"
       /\ TruthyId(calls[i].did)
       /\ calls[i].did = domain_id

\* C15: after a successful update to an IP and a restart of the process, the
\* first cycle in which the resolver returns that IP calls neither
\* update_record() nor Record.Modify.
C15_KnownIpSurvivesRestart ==
  (inherited # NoIP /\ new_ip = inherited
     /\ pc \in {"upd_get_domain", "upd_get_record", "rec_get_domain",
                "rec_check", "rec_list", "upd_check", "upd_modify", "sleep",
                "blocked"})
  => /\ upd_ip = NoIP
     /\ \A i \in 1..Len(calls) : calls[i].api # "Record.Modify"

\* C16: once domain_id (record_id) holds a value, no later step of the
\* running process changes it or resets it to None.
C16_CachedIdsStable ==
  [][ pc' # "stopped" =>
        /\ (domain_id # None => domain_id' = domain_id)
        /\ (record_id # None => record_id' = record_id)
    ]_vars

\* C17: an update_record() call that returns without having sent
\* Record.Modify leaves at least one of domain_id, record_id uncached.
C17_SkipOnlyWhenUnavailable ==
  (pc = "sleep" /\ upd_ip # NoIP /\ upd_result = "failure"
     /\ \A i \in 1..Len(calls) : calls[i].api # "Record.Modify")
  => (~DomainCached(domain_id) \/ ~RecordCached(record_id))

\* C19: the value of every Record.Modify request is this cycle's resolver
\* result, is not empty, has no blank at either end and differs from
\* current_ip as it was when the request went out; an empty resolver result
\* starts no update at all.
C19_ModifyValue ==
  /\ \A i \in 1..Len(calls) :
        calls[i].api = "Record.Modify" =>
           /\ calls[i].value = new_ip
           /\ calls[i].value # NoIP
           /\ calls[i].value # <<>>
           /\ Strip(calls[i].value) = calls[i].value
           /\ calls[i].value # ip0
  /\ pc = "upd_modify" =>
        (upd_ip = new_ip /\ upd_ip # current_ip /\ current_ip = ip0)
  /\ (pc \in LoopPcs /\ pc # "resolving" /\ pc # "run_compare"
        /\ new_ip = <<>>)
     => (upd_ip = NoIP /\ calls = <<>>)

\* C19 witness: a Record.Modify request went out for a resolved address while
\* another address was known
C19_Witness ==
  /\ pc = "sleep"
  /\ TruthyIp(ip0)
  /\ \E i \in 1..Len(calls) :
       /\ calls[i].api = "Record.Modify"
       /\ calls[i].value = new_ip

\* C18: once every resolution yields x and every provider request succeeds
\* with the domain and the record listed, current_ip eventually equals x, and
\* from then on no Record.Modify request is issued.
C18_Converges ==
  /\ (stable # NoIP) ~> (stable # NoIP /\ current_ip = stable)
  /\ [][ (stable # NoIP /\ current_ip = stable) => pc' # "upd_modify" ]_vars
====
